---- MODULE Spec2Model ----
(***************************************************************************)
(* Model of app_1509_2.py: the market-analysis competitor comparison.      *)
(* One run of the script is one interaction: load the table, map the       *)
(* column roles, apply the global filters, resolve one row per competitor  *)
(* slot, validate, render the comparison table and build the CSV export.   *)
(***************************************************************************)
EXTENDS Integers, Sequences, FiniteSets, TLC

(***************************************************************************)
(* Bounds of the model.                                                    *)
(***************************************************************************)
MaxRows == 2
MaxComp == 2
MaxCols == 2

(***************************************************************************)
(* Program constants.                                                      *)
(***************************************************************************)
MinComp == 2
MinValid == 2

CHOOSE_ == "(choose)"
ALL_ == "(all)"
ANY_ == "(any)"
Dash == "-"
NoneVal == "<None>"
NaN == "<NaN>"

quarter_names == <<"Quarter", "quarter">>
year_names == <<"Year", "year">>
region_names == <<"Region", "region">>
country_names == <<"Country", "country">>
country_flag_names == <<"Country Flag", "Country_Flag", "country_flag", "CountryFlag">>
brand_names == <<"Brand name", "Brand", "brand name", "brand">>
brand_logo_names == <<"Brand logo", "Brand_logo", "brand_logo", "BrandLogo">>

Range(s) == {s[k] : k \in 1..Len(s)}

(***************************************************************************)
(* Data frames.  A frame is an ordered list of column names and an ordered *)
(* list of rows; a row keeps the index label it had in the loaded table    *)
(* and maps every column name to a cell.  A null cell is NaN.              *)
(***************************************************************************)
DataFrame(columns, rows) == [columns |-> columns, rows |-> rows]

EmptyFrame == DataFrame(<< >>, << >>)

empty(frame) == Len(frame.rows) = 0 \/ Len(frame.columns) = 0

notna(v) == v # NaN

(***************************************************************************)
(* The files the environment may hold.  Every column of a header reads its *)
(* cells from one field of a source record.                                *)
(***************************************************************************)
Field(c) ==
    CASE c \in Range(year_names) -> "year"
      [] c \in Range(quarter_names) -> "quarter"
      [] c \in Range(region_names) -> "region"
      [] c \in Range(country_names) -> "country"
      [] c \in Range(country_flag_names) -> "flag"
      [] c \in Range(brand_names) -> "brand"
      [] c \in Range(brand_logo_names) -> "logo"
      [] OTHER -> "price"

RowPool ==
    { [year |-> "2023", quarter |-> "Q1", region |-> "NA", country |-> "USA",
       flag |-> "us.png", brand |-> "Acme", logo |-> "acme.png", price |-> "10"],
      [year |-> "2024", quarter |-> "Q1", region |-> "NA", country |-> "USA",
       flag |-> "us.png", brand |-> "Acme", logo |-> "acme.png", price |-> "10"],
      [year |-> "2024", quarter |-> "Q2", region |-> "EU", country |-> "DE",
       flag |-> NaN, brand |-> "Globex", logo |-> "globex.png", price |-> "-"] }

\* the headers of the workbook and of the delimited file
XlsxHeaders ==
    { <<"Year", "Country", "Country Flag", "Brand name", "Brand logo", "Price">>,
      <<"Brand", "year", "Quarter", "Price">>,
      <<"Price", "Region">> }

CsvHeaders ==
    { <<"brand", "Brand", "quarter", "Region", "Price">>,
      <<"Price", "Region">> }

MakeFrame(header, recs) ==
    DataFrame(header,
              [k \in 1..Len(recs) |->
                  [idx |-> k,
                   cells |-> [c \in Range(header) |-> recs[k][Field(c)]]]])

\* the row lists of a file: up to MaxRows records, none twice
RecSeqs ==
    {rs \in UNION {[1..n -> RowPool] : n \in 0..MaxRows} :
        \A j, k \in 1..Len(rs) : j # k => rs[j] # rs[k]}

Frames(headers) == {MakeFrame(h, rs) : h \in headers, rs \in RecSeqs}

\* what a read can do: raise, or return a frame
FileOutcomes(headers) ==
    {[ok |-> FALSE, df |-> EmptyFrame]}
        \cup {[ok |-> TRUE, df |-> f] : f \in Frames(headers)}

(***************************************************************************)
(* load_data: Excel first, CSV only when Excel raised; when both raise an  *)
(* error is shown and an empty frame is returned.                          *)
(***************************************************************************)
Attempt(format, outcome) == [format |-> format, ok |-> outcome.ok]

load_data_csv_first(xlsx, file_csv) ==
    IF file_csv.ok
    THEN [df |-> file_csv.df, tried |-> <<Attempt("csv", file_csv)>>, error |-> FALSE]
    ELSE IF xlsx.ok
         THEN [df |-> xlsx.df,
               tried |-> <<Attempt("csv", file_csv), Attempt("xlsx", xlsx)>>,
               error |-> FALSE]
         ELSE [df |-> EmptyFrame,
               tried |-> <<Attempt("csv", file_csv), Attempt("xlsx", xlsx)>>,
               error |-> TRUE]

load_data(xlsx, file_csv) ==
    IF xlsx.ok
    THEN [df |-> xlsx.df, tried |-> <<Attempt("xlsx", xlsx)>>, error |-> FALSE]
    ELSE IF file_csv.ok
         THEN [df |-> file_csv.df,
               tried |-> <<Attempt("xlsx", xlsx), Attempt("csv", file_csv)>>,
               error |-> FALSE]
         ELSE [df |-> EmptyFrame,
               tried |-> <<Attempt("xlsx", xlsx), Attempt("csv", file_csv)>>,
               error |-> TRUE]

(***************************************************************************)
(* get_col: the first option that is a column of the frame, else None.     *)
(***************************************************************************)
RECURSIVE get_col_from(_, _, _)
get_col_from(columns, options, k) ==
    IF k > Len(options) THEN NoneVal
    ELSE IF options[k] \in Range(columns) THEN options[k]
    ELSE get_col_from(columns, options, k + 1)

RECURSIVE get_col_last_from(_, _, _)
get_col_last_from(columns, options, k) ==
    IF k < 1 THEN NoneVal
    ELSE IF options[k] \in Range(columns) THEN options[k]
    ELSE get_col_last_from(columns, options, k - 1)

get_col_last(frame, options) == get_col_last_from(frame.columns, options, Len(options))

get_col(frame, options) == get_col_from(frame.columns, options, 1)

\* remaining_cols: the frame's columns that are not in preserve_cols
remaining_cols_keep_filters(frame, preserve) ==
    SelectSeq(frame.columns, LAMBDA c : \A k \in {4, 5, 6, 7} : preserve[k] # c)

remaining_cols_of(frame, preserve) ==
    SelectSeq(frame.columns, LAMBDA c : c \notin Range(preserve))

(***************************************************************************)
(* sorted(frame[col].dropna().unique()): Python orders strings by code     *)
(* point; SortOrder lists the cell values of the model in that order.      *)
(***************************************************************************)
SortOrder ==
    <<"-", "10", "2023", "2024", "Acme", "DE", "EU", "Globex", "NA", "Q1", "Q2",
      "USA", "acme.png", "globex.png", "us.png">>

sorted(S) == SelectSeq(SortOrder, LAMBDA v : v \in S)

unique_dropna(frame, col) ==
    {frame.rows[k].cells[col] : k \in 1..Len(frame.rows)} \ {NaN}

sorted_unique(frame, col) ==
    IF col # NoneVal THEN sorted(unique_dropna(frame, col)) ELSE << >>

\* frame[frame[col] == val]
filter_eq_off(frame, col, val) == frame

filter_eq(frame, col, val) ==
    DataFrame(frame.columns, SelectSeq(frame.rows, LAMBDA r : r.cells[col] = val))

\* chosen_row: the first row of the brand's subset, or an empty frame
chosen_row_last(df_for_brand, col_brand, sel_brand) ==
    IF sel_brand # CHOOSE_
    THEN LET subset == filter_eq(df_for_brand, col_brand, sel_brand)
         IN  IF ~empty(subset)
             THEN DataFrame(subset.columns, <<subset.rows[Len(subset.rows)]>>)
             ELSE EmptyFrame
    ELSE EmptyFrame

chosen_row_of(df_for_brand, col_brand, sel_brand) ==
    IF sel_brand # CHOOSE_
    THEN LET subset == filter_eq(df_for_brand, col_brand, sel_brand)
         IN  IF ~empty(subset)
             THEN DataFrame(subset.columns, <<subset.rows[1]>>)
             ELSE EmptyFrame
    ELSE EmptyFrame

\* valid_rows and the test that stops the run
valid_rows_of(sels) == SelectSeq(sels, LAMBDA s : ~empty(s.row))

too_few_one(valid) == Len(valid) < 1

too_few(valid) == Len(valid) < MinValid

\* get_val: the cell of the slot's row, or "-"
get_val_raw(s, col_name) ==
    IF empty(s.row) \/ col_name \notin Range(s.row.columns)
    THEN Dash
    ELSE s.row.rows[1].cells[col_name]

get_val(s, col_name) ==
    IF empty(s.row) \/ col_name \notin Range(s.row.columns)
    THEN Dash
    ELSE LET v == s.row.rows[1].cells[col_name]
         IN  IF notna(v) THEN v ELSE Dash

(***************************************************************************)
(* Rendering helpers: the images/ folder, the header cell of a slot, a     *)
(* cell of the comparison table, the export label and field names.         *)
(***************************************************************************)
AssetFiles == {"us.png", "acme.png"}

Item(kind, val) == [kind |-> kind, val |-> val]

\* Image.open + st.image, with the text written when the file is missing
show_image(path, fallback) ==
    IF path \in AssetFiles THEN Item("image", path) ELSE Item("write", fallback)

header_of(s, col_brand_logo, col_country_flag) ==
    (IF s.brand # CHOOSE_ THEN <<Item("markdown", s.brand)>> ELSE << >>)
    \o (IF ~empty(s.row) /\ col_brand_logo # NoneVal
           /\ notna(s.row.rows[1].cells[col_brand_logo])
        THEN <<show_image(s.row.rows[1].cells[col_brand_logo], "(logo not found)")>>
        ELSE << >>)
    \o (IF s.country # CHOOSE_
        THEN <<Item("write", s.country)>>
             \o (IF ~empty(s.row) /\ col_country_flag # NoneVal
                    /\ notna(s.row.rows[1].cells[col_country_flag])
                 THEN <<show_image(s.row.rows[1].cells[col_country_flag],
                                   "(flag not found)")>>
                 ELSE << >>)
        ELSE << >>)

column_name(s, i) ==
    IF s.brand # CHOOSE_ THEN s.brand ELSE "Competitor " \o ToString(i)

ordered_params_of(col_country, col_country_flag, col_brand, col_brand_logo, rest) ==
    (IF col_country # NoneVal THEN <<<<col_country, "Country">>>> ELSE << >>)
    \o (IF col_country_flag # NoneVal
        THEN <<<<col_country_flag, "Country Flag">>>> ELSE << >>)
    \o (IF col_brand # NoneVal THEN <<<<col_brand, "Brand">>>> ELSE << >>)
    \o (IF col_brand_logo # NoneVal
        THEN <<<<col_brand_logo, "Brand logo">>>> ELSE << >>)
    \o [k \in 1..Len(rest) |-> <<rest[k], rest[k]>>]

cell_of(s, col_name, col_country_flag, col_brand_logo) ==
    LET val == get_val(s, col_name)
    IN  IF col_name = col_country_flag \/ col_name = col_brand_logo
        THEN IF val # Dash THEN show_image(val, val) ELSE Item("write", Dash)
        ELSE Item("write", val)

label_of(s, i) ==
    IF s.brand # CHOOSE_ THEN s.brand ELSE "Competitor_" \o ToString(i)

\* row_flat: the row's cells under the names "<label> - <column>"
row_flat(s, i) ==
    [k \in 1..Len(s.row.columns) |->
        [name |-> label_of(s, i) \o " - " \o s.row.columns[k],
         value |-> s.row.rows[1].cells[s.row.columns[k]]]]

RECURSIVE concat_rows(_, _)
concat_rows(sels, i) ==
    IF i > Len(sels) THEN << >>
    ELSE (IF ~empty(sels[i].row) THEN row_flat(sels[i], i) ELSE << >>)
         \o concat_rows(sels, i + 1)

\* to_csv(index=False): the header line and the record, a null cell written empty
to_csv(frame) ==
    [header |-> [k \in 1..Len(frame) |-> frame[k].name],
     record |-> [k \in 1..Len(frame) |->
                    IF notna(frame[k].value) THEN frame[k].value ELSE ""]]

(***************************************************************************)
(* State.                                                                  *)
(***************************************************************************)
VARIABLES
    pc,               \* the position of the script
    shown,            \* the elements written to the page so far
    tried,            \* the reads load_data made, in order, and whether each returned
    loaded,           \* the frame load_data returned
    df,               \* the working frame, narrowed by the global filters
    col,              \* the column of each role, or None
    remaining_cols,
    num_comp,
    unique,           \* unique_years, unique_quarters, unique_regions, unique_countries
    glob,             \* global_year, global_quarter, global_region
    selections,
    widgets,          \* the option lists the selectboxes of each slot offered
    header,           \* the header cells of the slots
    table_head,       \* the column titles of the comparison table
    ordered_params,
    table,            \* table[p][i]: the cell of parameter p for slot i
    export_df,
    csv

vars == <<pc, shown, tried, loaded, df, col, remaining_cols, num_comp, unique, glob,
          selections, widgets, header, table_head, ordered_params, table,
          export_df, csv>>

NoCols == [quarter |-> NoneVal, year |-> NoneVal, region |-> NoneVal,
           country |-> NoneVal, country_flag |-> NoneVal, brand |-> NoneVal,
           brand_logo |-> NoneVal]

NoUnique == [years |-> << >>, quarters |-> << >>, regions |-> << >>,
             countries |-> << >>]

NoGlobal == [year |-> ALL_, quarter |-> ALL_, region |-> ALL_]

Init ==
    /\ pc = "load"
    /\ loaded = EmptyFrame
    /\ df = EmptyFrame
    /\ shown = {}
    /\ tried = << >>
    /\ col = NoCols
    /\ remaining_cols = << >>
    /\ num_comp = 0
    /\ unique = NoUnique
    /\ glob = NoGlobal
    /\ selections = << >>
    /\ widgets = << >>
    /\ header = << >>
    /\ table_head = << >>
    /\ ordered_params = << >>
    /\ table = << >>
    /\ export_df = << >>
    /\ csv = [header |-> << >>, record |-> << >>]

(***************************************************************************)
(* Actions, in script order.                                               *)
(***************************************************************************)
\* df = load_data(); if df.empty: st.stop()
LoadData ==
    /\ pc = "load"
    /\ \E xlsx \in FileOutcomes(XlsxHeaders) :
       \E file_csv \in FileOutcomes(CsvHeaders) :
          LET r == load_data(xlsx, file_csv)
          IN  /\ loaded' = r.df
              /\ df' = r.df
              /\ tried' = r.tried
              /\ shown' = IF r.error THEN shown \cup {"error"} ELSE shown
              /\ pc' = IF empty(r.df) THEN "halt_load" ELSE "map"
    /\ UNCHANGED <<col, remaining_cols, num_comp, unique, glob, selections, widgets,
                   header, table_head, ordered_params, table, export_df, csv>>

\* col_quarter .. col_brand_logo, preserve_cols, remaining_cols
MapColumns ==
    /\ pc = "map"
    /\ LET c == [quarter |-> get_col(df, quarter_names),
                 year |-> get_col(df, year_names),
                 region |-> get_col(df, region_names),
                 country |-> get_col(df, country_names),
                 country_flag |-> get_col(df, country_flag_names),
                 brand |-> get_col(df, brand_names),
                 brand_logo |-> get_col(df, brand_logo_names)]
           preserve_cols == <<c.quarter, c.year, c.region, c.country,
                              c.country_flag, c.brand, c.brand_logo>>
       IN  /\ col' = c
           /\ remaining_cols' = remaining_cols_of(df, preserve_cols)
    /\ pc' = "sidebar"
    /\ UNCHANGED <<shown, tried, loaded, df, num_comp, unique, glob, selections,
                   widgets, header, table_head, ordered_params, table, export_df, csv>>

\* the slider and the unique lists of the unfiltered frame
Sidebar ==
    /\ pc = "sidebar"
    /\ \E n \in MinComp..MaxComp : num_comp' = n
    /\ unique' = [years |-> sorted_unique(df, col.year),
                  quarters |-> sorted_unique(df, col.quarter),
                  regions |-> sorted_unique(df, col.region),
                  countries |-> sorted_unique(df, col.country)]
    /\ pc' = "global_year"
    /\ UNCHANGED <<shown, tried, loaded, df, col, remaining_cols, glob, selections,
                   widgets, header, table_head, ordered_params, table, export_df, csv>>

GlobalYear ==
    /\ pc = "global_year"
    /\ \E global_year \in {ALL_} \cup Range(unique.years) :
          /\ glob' = [glob EXCEPT !.year = global_year]
          /\ IF global_year # ALL_
             THEN LET d == filter_eq(df, col.year, global_year)
                  IN  /\ df' = d
                      /\ unique' = [unique EXCEPT
                                       !.quarters = sorted_unique(d, col.quarter),
                                       !.regions = sorted_unique(d, col.region),
                                       !.countries = sorted_unique(d, col.country)]
             ELSE UNCHANGED <<df, unique>>
    /\ pc' = "global_quarter"
    /\ UNCHANGED <<shown, tried, loaded, col, remaining_cols, num_comp, selections,
                   widgets, header, table_head, ordered_params, table, export_df, csv>>

GlobalQuarter ==
    /\ pc = "global_quarter"
    /\ \E global_quarter \in {ALL_} \cup Range(unique.quarters) :
          /\ glob' = [glob EXCEPT !.quarter = global_quarter]
          /\ IF global_quarter # ALL_
             THEN LET d == filter_eq(df, col.quarter, global_quarter)
                  IN  /\ df' = d
                      /\ unique' = [unique EXCEPT
                                       !.regions = sorted_unique(d, col.region),
                                       !.countries = sorted_unique(d, col.country)]
             ELSE UNCHANGED <<df, unique>>
    /\ pc' = "global_region"
    /\ UNCHANGED <<shown, tried, loaded, col, remaining_cols, num_comp, selections,
                   widgets, header, table_head, ordered_params, table, export_df, csv>>

GlobalRegion ==
    /\ pc = "global_region"
    /\ \E global_region \in {ALL_} \cup Range(unique.regions) :
          /\ glob' = [glob EXCEPT !.region = global_region]
          /\ IF global_region # ALL_
             THEN LET d == filter_eq(df, col.region, global_region)
                  IN  /\ df' = d
                      /\ unique' = [unique EXCEPT
                                       !.countries = sorted_unique(d, col.country)]
             ELSE UNCHANGED <<df, unique>>
    /\ pc' = "slots"
    /\ UNCHANGED <<shown, tried, loaded, col, remaining_cols, num_comp, selections,
                   widgets, header, table_head, ordered_params, table, export_df, csv>>

\* one pass of the loop over range(num_comp)
SelectCompetitor ==
    /\ pc = "slots"
    /\ Len(selections) < num_comp
    /\ LET country_opts == <<CHOOSE_>> \o sorted_unique(df, col.country)
       IN  \E sel_country \in Range(country_opts) :
           LET df_country == IF sel_country # CHOOSE_
                             THEN filter_eq(df, col.country, sel_country)
                             ELSE df
               brand_opts == <<CHOOSE_>> \o sorted_unique(df_country, col.brand)
           IN  \E sel_brand \in Range(brand_opts) :
               LET year_opts == IF col.year # NoneVal
                                THEN <<ANY_>> \o sorted_unique(df_country, col.year)
                                ELSE << >>
               IN  \E sel_year \in (IF col.year # NoneVal
                                    THEN Range(year_opts) ELSE {NoneVal}) :
                   LET df_year == IF col.year # NoneVal /\ sel_year # ANY_
                                  THEN filter_eq(df_country, col.year, sel_year)
                                  ELSE df_country
                       q_opts == IF col.quarter # NoneVal
                                 THEN <<ANY_>> \o sorted_unique(df_year, col.quarter)
                                 ELSE << >>
                   IN  \E sel_quarter \in (IF col.quarter # NoneVal
                                           THEN Range(q_opts) ELSE {NoneVal}) :
                       LET df_for_brand ==
                               IF col.quarter # NoneVal /\ sel_quarter # ANY_
                               THEN filter_eq(df_year, col.quarter, sel_quarter)
                               ELSE df_year
                       IN  /\ selections' = Append(selections,
                                  [country |-> sel_country,
                                   brand |-> sel_brand,
                                   year |-> sel_year,
                                   quarter |-> sel_quarter,
                                   row |-> chosen_row_of(df_for_brand, col.brand,
                                                         sel_brand)])
                           /\ widgets' = Append(widgets,
                                  [country_opts |-> country_opts,
                                   brand_opts |-> brand_opts,
                                   year_opts |-> year_opts,
                                   q_opts |-> q_opts])
    /\ pc' = IF Len(selections) + 1 = num_comp THEN "main" ELSE "slots"
    /\ UNCHANGED <<shown, tried, loaded, df, col, remaining_cols, num_comp, unique,
                   glob, header, table_head, ordered_params, table, export_df, csv>>

\* the main area: the validation, the header, the comparison table, the export
MainArea ==
    /\ pc = "main"
    /\ IF too_few(valid_rows_of(selections))
       THEN /\ shown' = shown \cup {"warning"}
            /\ pc' = "halt_valid"
            /\ UNCHANGED <<header, table_head, ordered_params, table, export_df, csv>>
       ELSE LET params == ordered_params_of(col.country, col.country_flag,
                                            col.brand, col.brand_logo,
                                            remaining_cols)
            IN  /\ header' = [i \in 1..Len(selections) |->
                                 header_of(selections[i], col.brand_logo,
                                           col.country_flag)]
                /\ table_head' = [i \in 1..Len(selections) |->
                                     column_name(selections[i], i)]
                /\ ordered_params' = params
                /\ table' = [p \in 1..Len(params) |->
                                [i \in 1..Len(selections) |->
                                    cell_of(selections[i], params[p][1],
                                            col.country_flag, col.brand_logo)]]
                /\ export_df' = concat_rows(selections, 1)
                /\ csv' = to_csv(concat_rows(selections, 1))
                /\ shown' = shown \cup {"header", "table", "download"}
                /\ pc' = "done"
    /\ UNCHANGED <<tried, loaded, df, col, remaining_cols, num_comp, unique, glob,
                   selections, widgets>>

Next ==
    \/ LoadData
    \/ MapColumns
    \/ Sidebar
    \/ GlobalYear
    \/ GlobalQuarter
    \/ GlobalRegion
    \/ SelectCompetitor
    \/ MainArea

Spec == Init /\ [][Next]_vars

(***************************************************************************)
(* The column mapping on its own: every header of up to MaxCols distinct   *)
(* names drawn from the accepted spellings and one other column.           *)
(***************************************************************************)
ColNames ==
    Range(quarter_names) \cup Range(year_names) \cup Range(region_names)
        \cup Range(country_names) \cup Range(country_flag_names)
        \cup Range(brand_names) \cup Range(brand_logo_names) \cup {"Price"}

ColHeaders ==
    {h \in UNION {[1..n -> ColNames] : n \in 1..MaxCols} :
        \A j, k \in 1..Len(h) : j # k => h[j] # h[k]}

InitCols ==
    /\ pc = "map"
    /\ \E h \in ColHeaders, r \in RowPool :
          /\ loaded = MakeFrame(h, <<r>>)
          /\ df = MakeFrame(h, <<r>>)
    /\ shown = {}
    /\ tried = <<[format |-> "xlsx", ok |-> TRUE]>>
    /\ col = NoCols
    /\ remaining_cols = << >>
    /\ num_comp = 0
    /\ unique = NoUnique
    /\ glob = NoGlobal
    /\ selections = << >>
    /\ widgets = << >>
    /\ header = << >>
    /\ table_head = << >>
    /\ ordered_params = << >>
    /\ table = << >>
    /\ export_df = << >>
    /\ csv = [header |-> << >>, record |-> << >>]

NextCols == MapColumns

SpecCols == InitCols /\ [][NextCols]_vars

(***************************************************************************)
(* Properties.  They are stated over the loaded table and the recorded     *)
(* choices, not through the operators of the script.                       *)
(***************************************************************************)
Slots == 1..Len(selections)

Matched(i) == Len(selections[i].row.rows) > 0

MatchedSlots == {i \in Slots : Matched(i)}

Concrete(v) == v \notin {CHOOSE_, ALL_, ANY_, NoneVal}

\* row r has value v in column c, when v is a concrete choice
Holds(r, c, v) == Concrete(v) => r.cells[c] = v

\* row r passes the global filters and the filters of slot i for the given roles
Satisfies(r, i, roles) ==
    /\ Holds(r, col.year, glob.year)
    /\ Holds(r, col.quarter, glob.quarter)
    /\ Holds(r, col.region, glob.region)
    /\ "country" \in roles => Holds(r, col.country, selections[i].country)
    /\ "brand" \in roles => Holds(r, col.brand, selections[i].brand)
    /\ "year" \in roles => Holds(r, col.year, selections[i].year)
    /\ "quarter" \in roles => Holds(r, col.quarter, selections[i].quarter)

\* the index labels of the loaded rows that pass the filters of slot i
Remaining(i, roles) ==
    {k \in 1..Len(loaded.rows) : Satisfies(loaded.rows[k], i, roles)}

AllRoles == {"country", "brand", "year", "quarter"}

Min(S) == CHOOSE m \in S : \A n \in S : m <= n

ValuesOf(K, c) == {loaded.rows[k].cells[c] : k \in K} \ {NaN}

\* C1: a slot whose Country or Brand is left at "(choose)" has no matched row
\* and is not among the valid selections
C1_UnsetSlotNeverMatches ==
    \A i \in Slots :
        (selections[i].country = CHOOSE_ \/ selections[i].brand = CHOOSE_)
            => /\ empty(selections[i].row)
               /\ selections[i] \notin Range(valid_rows_of(selections))

\* C2: the field names of the export are pairwise distinct
C2_ExportFieldNamesDistinct ==
    pc = "done" =>
        \A j, k \in 1..Len(csv.header) : j # k => csv.header[j] # csv.header[k]

\* C3: the option list of every per-competitor filter holds exactly the values
\* of the rows left by the global filters and the slot's earlier filters in the
\* order Country, Brand, Year, Quarter; so the Year and Quarter options occur in
\* rows of the chosen Country and the chosen Brand
C3_OptionsNarrowedInOrder ==
    \A i \in 1..Len(widgets) :
        /\ col.country # NoneVal =>
              Range(widgets[i].country_opts) \ {CHOOSE_}
                  = ValuesOf(Remaining(i, {}), col.country)
        /\ col.brand # NoneVal =>
              Range(widgets[i].brand_opts) \ {CHOOSE_}
                  = ValuesOf(Remaining(i, {"country"}), col.brand)
        /\ col.year # NoneVal =>
              Range(widgets[i].year_opts) \ {ANY_}
                  = ValuesOf(Remaining(i, {"country", "brand"}), col.year)
        /\ col.quarter # NoneVal =>
              Range(widgets[i].q_opts) \ {ANY_}
                  = ValuesOf(Remaining(i, {"country", "brand", "year"}), col.quarter)

\* C4: for a slot with Country and Brand chosen the resolved row is the first
\* row, in the order of the loaded table, of the rows left by all applied
\* filters, and "no match" when none is left
C4_FirstRemainingRow ==
    \A i \in Slots :
        (selections[i].country # CHOOSE_ /\ selections[i].brand # CHOOSE_) =>
            IF Remaining(i, AllRoles) = {}
            THEN selections[i].row = EmptyFrame
            ELSE /\ selections[i].row.columns = loaded.columns
                 /\ selections[i].row.rows
                        = <<loaded.rows[Min(Remaining(i, AllRoles))]>>

\* two rows of the chosen (Country, Brand) that differ only in Year, no Year
\* filter applied, and the slot resolved
C4_Witness ==
    \E i \in Slots :
        /\ selections[i].country # CHOOSE_ /\ selections[i].brand # CHOOSE_
        /\ selections[i].year = ANY_ /\ glob.year = ALL_
        /\ Cardinality(Remaining(i, AllRoles)) = 2
        /\ \E j, k \in Remaining(i, AllRoles) :
              /\ j < k
              /\ loaded.rows[j].cells[col.year] # loaded.rows[k].cells[col.year]
              /\ \A c \in Range(loaded.columns) \ {col.year} :
                    loaded.rows[j].cells[c] = loaded.rows[k].cells[c]
              /\ selections[i].row.rows[1].idx = j

\* C5: with fewer than two matched slots the run shows the warning and stops
\* with no comparison table and no export; the table and the export exist only
\* with at least two matched slots
C5_TooFewSelectionsHalt ==
    /\ (pc \in {"done", "halt_valid"} /\ Cardinality(MatchedSlots) < 2) =>
          /\ pc = "halt_valid"
          /\ "warning" \in shown
          /\ shown \cap {"header", "table", "download"} = {}
          /\ table = << >> /\ ordered_params = << >>
          /\ export_df = << >> /\ csv.header = << >>
    /\ (shown \cap {"table", "download"} # {} \/ table # << >> \/ export_df # << >>)
          => /\ Cardinality(MatchedSlots) >= 2
             /\ "warning" \notin shown

C5_Witness == pc = "halt_valid" /\ Cardinality(MatchedSlots) = 1

FirstFour ==
    SelectSeq(<<col.country, col.country_flag, col.brand, col.brand_logo>>,
              LAMBDA c : c # NoneVal)

ParamColumns == [p \in 1..Len(ordered_params) |-> ordered_params[p][1]]

NoRepeat(q) == \A j, k \in 1..Len(q) : j # k => q[j] # q[k]

\* C6 as claimed: the four role columns, then every other column of the table
C6_RestIsAllOtherColumns ==
    pc = "done" =>
        /\ ParamColumns
              = FirstFour \o SelectSeq(loaded.columns,
                                       LAMBDA c : c \notin Range(FirstFour))
        /\ NoRepeat(ParamColumns)

\* C6: the parameter list is the resolved Country, Country Flag, Brand and
\* Brand logo columns in that order, then the columns of the table mapped to
\* none of the seven roles (Year, Quarter and Region are left out too), in
\* table order, and no column twice
C6_ParamList ==
    pc = "done" =>
        /\ ParamColumns
              = FirstFour
                \o SelectSeq(loaded.columns,
                             LAMBDA c : c \notin {col.quarter, col.year, col.region,
                                                  col.country, col.country_flag,
                                                  col.brand, col.brand_logo})
        /\ NoRepeat(ParamColumns)

C6_Witness ==
    /\ pc = "done"
    /\ col.year # NoneVal
    /\ Len(FirstFour) = 4
    /\ Len(ordered_params) > 4

\* the cell behind table[p][i]: absent when the slot has no row or the cell is null
Absent(p, i) ==
    \/ ~Matched(i)
    \/ ParamColumns[p] \notin Range(loaded.columns)
    \/ loaded.rows[selections[i].row.rows[1].idx].cells[ParamColumns[p]] = NaN

CellBehind(p, i) ==
    loaded.rows[selections[i].row.rows[1].idx].cells[ParamColumns[p]]

LoadOrder ==
    /\ Len(tried) \in {1, 2}
    /\ tried[1].format = "xlsx"
    /\ Len(tried) = 2 <=> ~tried[1].ok
    /\ Len(tried) = 2 => tried[2].format = "csv"

BothFailed == \A k \in 1..Len(tried) : ~tried[k].ok

FatalHalt ==
    /\ "error" \in shown
    /\ pc = "halt_load"
    /\ loaded = EmptyFrame /\ df = EmptyFrame
    /\ selections = << >> /\ table = << >> /\ export_df = << >>

\* C8 as claimed: Excel first, CSV only after Excel failed, a fatal error when
\* both fail, and the session goes on whenever one of them loads
C8_ProceedsWheneverLoaded ==
    pc # "load" =>
        /\ LoadOrder
        /\ BothFailed => FatalHalt
        /\ ~BothFailed => pc # "halt_load"

\* C8: Excel is read first and CSV only after Excel failed; when both fail the
\* error is shown, no table is used and the run stops before any selection;
\* when one loads a table with at least one row and one column the run goes on
\* with that table, and when the loaded table is empty the run stops without
\* an error message
C8_LoadFallback ==
    pc # "load" =>
        /\ LoadOrder
        /\ BothFailed => FatalHalt
        /\ ~BothFailed =>
              /\ "error" \notin shown
              /\ IF Len(loaded.rows) > 0 /\ Len(loaded.columns) > 0
                 THEN pc # "halt_load" /\ df.columns = loaded.columns
                 ELSE pc = "halt_load" /\ selections = << >>

C8_Witness ==
    /\ Len(tried) = 2 /\ tried[2].ok
    /\ Len(loaded.rows) > 0
    /\ pc = "done"

Variants ==
    [quarter |-> quarter_names, year |-> year_names, region |-> region_names,
     country |-> country_names, country_flag |-> country_flag_names,
     brand |-> brand_names, brand_logo |-> brand_logo_names]

Present(role) == {k \in 1..Len(Variants[role]) : Variants[role][k] \in Range(loaded.columns)}

\* C9: every role resolves to the first spelling of its own list that is a
\* column of the table, or to None when none is; nothing else enters
C9_FirstPresentVariant ==
    pc \notin {"load", "map", "halt_load"} =>
        \A role \in DOMAIN Variants :
            col[role] = IF Present(role) = {} THEN NoneVal
                        ELSE Variants[role][Min(Present(role))]

\* two spellings of one role present, the later one first in the table
C9_Witness ==
    /\ pc = "sidebar"
    /\ \E role \in DOMAIN Variants :
          /\ Cardinality(Present(role)) = 2
          /\ loaded.columns[1] # col[role]
          /\ loaded.columns[1] \in Range(Variants[role])
    /\ \E role \in DOMAIN Variants : col[role] = NoneVal

\* C10: a resolved row is a row of the loaded table and satisfies every
\* concrete filter in force for its slot: the global Year, Quarter and Region,
\* and the slot's own Country, Brand, Year and Quarter
C10_RowSatisfiesFilters ==
    \A i \in Slots :
        Matched(i) =>
            /\ Len(selections[i].row.rows) = 1
            /\ selections[i].row.columns = loaded.columns
            /\ selections[i].row.rows[1].idx \in 1..Len(loaded.rows)
            /\ selections[i].row.rows[1]
                  = loaded.rows[selections[i].row.rows[1].idx]
            /\ Concrete(selections[i].brand)
            /\ Satisfies(selections[i].row.rows[1], i, AllRoles)

\* a matched slot under a global filter, with its own Country and Year set,
\* in a table that also holds rows those filters exclude
C10_Witness ==
    \E i \in Slots :
        /\ Matched(i)
        /\ Concrete(glob.year) \/ Concrete(glob.quarter) \/ Concrete(glob.region)
        /\ Concrete(selections[i].country)
        /\ Concrete(selections[i].year)
        /\ Cardinality(Remaining(i, AllRoles)) < Len(loaded.rows)

====
